---- MODULE Spec2Model ----
(***************************************************************************)
(* A model of S3Handler (src/s3_handler.py): the object operations         *)
(* read_file / write_file / copy_file / delete_file and the two paging     *)
(* generators iterate_keys and iterate_dirs, together with the part of the *)
(* object store they call (Object.put/get/copy_from/delete and             *)
(* list_objects_v2).                                                       *)
(*                                                                         *)
(* Strings (bucket names, keys, prefixes) are sequences of one-character   *)
(* strings, so that prefix tests, the "/" delimiter and the listing order  *)
(* can be computed.  The empty sequence is Python's ''.                    *)
(***************************************************************************)
EXTENDS Integers, Sequences, FiniteSets, TLC

VARIABLES
    bucket,      \* the set of keys held by the bucket the generators list
    prefix,      \* the prefix argument of iterate_keys / iterate_dirs
    max_keys,    \* the page-size limit the listing call is served with
    gen,         \* the frame of the iterate_keys generator
    stack,       \* the frames of the (recursive) iterate_dirs generators
    status,      \* "idle", "running", "done" (StopIteration) or "raised"
    demand,      \* TRUE while the consumer is inside next(), awaiting an item
    yielded,     \* the items handed to the consumer so far, in order
    log,         \* one record per list_objects_v2 call: arguments and response
    emptyLeft,   \* how many item-less pages the service may still serve
    envLeft,     \* how many operations other clients may still perform
    stable,      \* keys present at the start and never deleted since
    store,       \* the object store: <<bucket name, key>> -> body or NoObject
    written,     \* <<bucket name, key>> -> the text last put by write_file
    last,        \* the last object operation performed
    opsLeft      \* how many object operations may still be performed

vars == <<bucket, prefix, max_keys, gen, stack, status, demand, yielded, log,
          emptyLeft, envLeft, stable, store, written, last, opsLeft>>

listVars == <<bucket, prefix, max_keys, gen, stack, status, demand, yielded,
              log, emptyLeft, envLeft, stable>>
storeVars == <<store, written, last, opsLeft>>

----------------------------------------------------------------------------
(* Bounds of the model.                                                    *)

MaxPageSize == 3
MaxBucket == 4
MaxEmptyPages == 1
MaxEnvOps == 2
MaxOps == 3

----------------------------------------------------------------------------
(* Strings and the listing order.                                          *)

Min(a, b) == IF a <= b THEN a ELSE b

\* The elements of the sequence q.
Range(q) == { q[i] : i \in 1..Len(q) }

\* Code points of the characters used by the keys of the model.
Ord(c) ==
    CASE c = "/" -> 47
      [] c = "a" -> 97
      [] c = "b" -> 98
      [] c = "c" -> 99
      [] c = "d" -> 100
      [] c = "x" -> 120
      [] c = "y" -> 121

\* Python's s < t on strings, which is also the order in which
\* list_objects_v2 returns keys (binary order of the UTF-8 encoding).
Less(s, t) ==
    \E i \in 1..Len(t) :
        /\ i <= Len(s) + 1
        /\ \A j \in 1..(i - 1) : s[j] = t[j]
        /\ \/ i = Len(s) + 1
           \/ Ord(s[i]) < Ord(t[i])

\* Python's k.startswith(p).
StartsWith(k, p) == Len(p) <= Len(k) /\ SubSeq(k, 1, Len(p)) = p

Least(S) == CHOOSE k \in S : \A o \in S \ {k} : Less(k, o)

RECURSIVE SortedSeq(_)
\* The strings of S in listing order.
SortedSeq(S) ==
    IF S = {} THEN <<>>
    ELSE LET m == Least(S) IN <<m>> \o SortedSeq(S \ {m})

\* The keys the bucket of the model may hold, and the prefixes asked for.
KeyUniverse ==
    { <<"a">>, <<"a", "/", "b">>, <<"a", "/", "c">>,
      <<"a", "/", "b", "/", "c">>, <<"b", "/", "c">>, <<"d">>, <<"/", "a">> }

Prefixes == { <<>>, <<"a">>, <<"a", "/">>, <<"a", "/", "b", "/">> }

Buckets == { B \in SUBSET KeyUniverse : Cardinality(B) <= MaxBucket }

----------------------------------------------------------------------------
(* list_objects_v2 without a delimiter, as iterate_keys calls it.          *)

\* The keys of B under Prefix that come after StartAfter, in listing order.
KeysAfter(B, Prefix, StartAfter) ==
    SortedSeq({ k \in B : StartsWith(k, Prefix) /\ Less(StartAfter, k) })

\* response with the optional member name present when cond holds.
WithMember(response, name, val, cond) ==
    IF cond THEN (name :> val) @@ response ELSE response

\* The first MaxKeys keys of the listing rest, with IsTruncated when keys
\* remain after them; Contents is absent from a page without keys.
KeyPageOf(rest, MaxKeys) ==
    WithMember([ IsTruncated |-> Len(rest) > MaxKeys ],
               "Contents", SubSeq(rest, 1, Min(MaxKeys, Len(rest))),
               rest # <<>>)

\* The response to list_objects_v2(Bucket, Prefix, MaxKeys, StartAfter).
list_objects_v2(B, Prefix, MaxKeys, StartAfter) ==
    CHOOSE r \in { KeyPageOf(rest, MaxKeys) :
                   rest \in { KeysAfter(B, Prefix, StartAfter) } } : TRUE

\* A response that is truncated although it carries no key.
EmptyTruncated == [ IsTruncated |-> TRUE ]

----------------------------------------------------------------------------
(* iterate_keys                                                            *)

NoFrame == [ pc |-> "none" ]

\* The frame of a generator that was created and has not run yet.
KeysFrame ==
    [ pc |-> "init", page_exist |-> TRUE, start_after_key |-> <<>>,
      keys |-> <<>>, idx |-> 1, response |-> [ IsTruncated |-> FALSE ] ]

\* next(): the consumer asks for the next item; the generator body only runs
\* while a next() is pending.
Request ==
    /\ status \in {"idle", "running"}
    /\ ~demand
    /\ demand' = TRUE
    /\ status' = "running"
    /\ UNCHANGED <<bucket, prefix, max_keys, gen, stack, yielded, log,
                   emptyLeft, envLeft, stable, storeVars>>

\* Lines 155-157: page_exist = True, start_after_key = ''.
KeysBegin ==
    /\ demand /\ status = "running"
    /\ gen.pc = "init"
    /\ gen' = [gen EXCEPT !.pc = "while", !.page_exist = TRUE,
                          !.start_after_key = <<>>]
    /\ UNCHANGED <<bucket, prefix, max_keys, stack, status, demand, yielded,
                   log, emptyLeft, envLeft, stable, storeVars>>

\* The page without its last key.
PageKeysButLast(response) ==
    IF "Contents" \in DOMAIN response
    THEN SubSeq(response["Contents"], 1, Len(response["Contents"]) - 1)
    ELSE <<>>

\* Lines 165-166: keys = [k['Key'] for k in response.get('Contents', [])].
PageKeys(response) ==
    IF "Contents" \in DOMAIN response THEN response["Contents"] ELSE <<>>

\* Lines 162-166 with the response resp: the page's keys are extracted.
KeysReceive(resp) ==
    /\ gen' = [gen EXCEPT !.pc = "for", !.response = resp,
                          !.keys = PageKeys(resp), !.idx = 1]
    /\ log' = Append(log, [ Prefix |-> prefix,
                            StartAfter |-> gen.start_after_key,
                            IsTruncated |-> resp.IsTruncated,
                            Contents |-> IF "Contents" \in DOMAIN resp
                                         THEN resp["Contents"] ELSE <<>> ])

\* Line 159 and 162: while page_exist, the listing call.
KeysList ==
    /\ demand /\ status = "running"
    /\ gen.pc = "while" /\ gen.page_exist
    /\ \E response \in { list_objects_v2(bucket, prefix, max_keys,
                                          gen.start_after_key) } :
         KeysReceive(response)
    /\ UNCHANGED <<bucket, prefix, max_keys, stack, status, demand, yielded,
                   emptyLeft, envLeft, stable, storeVars>>

\* The same call served with a truncated page that carries no keys.
KeysListEmpty ==
    /\ demand /\ status = "running"
    /\ gen.pc = "while" /\ gen.page_exist
    /\ emptyLeft > 0
    /\ emptyLeft' = emptyLeft - 1
    /\ KeysReceive(EmptyTruncated)
    /\ UNCHANGED <<bucket, prefix, max_keys, stack, status, demand, yielded,
                   envLeft, stable, storeVars>>

\* A yield that, having handed over the last key of a truncated page,
\* fetches the next page before the consumer asks for more.
KeysYieldPrefetch ==
    /\ demand /\ status = "running"
    /\ gen.pc = "for" /\ gen.idx <= Len(gen.keys)
    /\ yielded' = Append(yielded, gen.keys[gen.idx])
    /\ demand' = FALSE
    /\ IF gen.idx = Len(gen.keys) /\ gen.response.IsTruncated
       THEN LET after == gen.keys[gen.idx]
                resp == list_objects_v2(bucket, prefix, max_keys, after)
            IN  /\ gen' = [gen EXCEPT !.start_after_key = after,
                              !.response = resp, !.keys = PageKeys(resp),
                              !.idx = 1]
                /\ log' = Append(log, [ Prefix |-> prefix, StartAfter |-> after,
                                        IsTruncated |-> resp.IsTruncated,
                                        Contents |-> PageKeys(resp) ])
       ELSE /\ gen' = [gen EXCEPT !.idx = gen.idx + 1]
            /\ UNCHANGED log
    /\ UNCHANGED <<bucket, prefix, max_keys, stack, status, emptyLeft,
                   envLeft, stable, storeVars>>

\* Lines 167-168: yield k, which suspends the generator.
KeysYield ==
    /\ demand /\ status = "running"
    /\ gen.pc = "for" /\ gen.idx <= Len(gen.keys)
    /\ yielded' = Append(yielded, gen.keys[gen.idx])
    /\ gen' = [gen EXCEPT !.idx = gen.idx + 1]
    /\ demand' = FALSE
    /\ UNCHANGED <<bucket, prefix, max_keys, stack, status, log, emptyLeft,
                   envLeft, stable, storeVars>>

\* A loop that goes on for as long as pages carry keys.
PageExistWhileKeys(response, keys) == keys # <<>>

\* Line 172: page_exist = response['IsTruncated'].
PageExist(response, keys) == response.IsTruncated

\* The cursor taken from the wrong end of the page.
FirstKey(keys) == keys[1]

\* Line 174: start_after_key = keys[-1] (of a non-empty page).
LastKey(keys) == keys[Len(keys)]

\* Lines 172-174 and the loop test of line 159: page_exist takes the
\* truncation flag; when set, start_after_key = keys[-1], which raises
\* IndexError on an empty page; when clear, the generator returns.
KeysPageEnd ==
    /\ demand /\ status = "running"
    /\ gen.pc = "for" /\ gen.idx > Len(gen.keys)
    /\ LET page_exist == PageExist(gen.response, gen.keys)
       IN  IF page_exist
           THEN IF gen.keys = <<>>
                THEN /\ gen' = [gen EXCEPT !.pc = "raised", !.page_exist = TRUE]
                     /\ status' = "raised"
                     /\ demand' = FALSE
                ELSE /\ gen' = [gen EXCEPT !.pc = "while", !.page_exist = TRUE,
                                  !.start_after_key = LastKey(gen.keys)]
                     /\ UNCHANGED <<status, demand>>
           ELSE /\ gen' = [gen EXCEPT !.pc = "done", !.page_exist = FALSE]
                /\ status' = "done"
                /\ demand' = FALSE
    /\ UNCHANGED <<bucket, prefix, max_keys, stack, yielded, log, emptyLeft,
                   envLeft, stable, storeVars>>

----------------------------------------------------------------------------
(* list_objects_v2 with Delimiter='/', as iterate_dirs calls it.           *)

\* continuation_token = '' (line 120): no token; the service's tokens are
\* non-empty, modelled as the positive numbers.
NoToken == 0

\* The positions of the delimiter in k after the prefix.
DelimitersAfter(k, Prefix) == { i \in (Len(Prefix) + 1)..Len(k) : k[i] = "/" }

\* What the listing shows for key k: the key itself, or the common prefix
\* that ends at the first delimiter after the prefix.
Entry(k, Prefix) ==
    LET D == DelimitersAfter(k, Prefix)
    IN  IF D = {} THEN k
        ELSE SubSeq(k, 1, CHOOSE i \in D : \A j \in D : i <= j)

IsCommonPrefix(name, Prefix) ==
    Len(name) > Len(Prefix) /\ name[Len(name)] = "/"

\* The entries (keys and common prefixes) of the listing.
EntrySet(B, Prefix) ==
    { Entry(k, Prefix) : k \in { k \in B : StartsWith(k, Prefix) } }

\* The entries in listing order.
Entries(B, Prefix) == SortedSeq(EntrySet(B, Prefix))

\* The page of n entries that follows the token in the listing all: the
\* page's common prefixes and keys (each member absent when it would be
\* empty) and, when entries remain, the token of the next page.
PageOf(all, Prefix, ContinuationToken, n) ==
    LET from == IF ContinuationToken = NoToken THEN 0 ELSE ContinuationToken - 1
        to   == Min(from + n, Len(all))
        page == SubSeq(all, from + 1, to)
        cps  == SelectSeq(page, LAMBDA e : IsCommonPrefix(e, Prefix))
        keys == SelectSeq(page, LAMBDA e : ~IsCommonPrefix(e, Prefix))
    IN  WithMember(
          WithMember(
            WithMember([ IsTruncated |-> to < Len(all) ],
                       "CommonPrefixes", cps, cps # <<>>),
            "Contents", keys, keys # <<>>),
          "NextContinuationToken", to + 1, to < Len(all))

\* The response to list_objects_v2(Bucket, Prefix, Delimiter='/'
\* [, ContinuationToken]) of a service that serves n entries a page.
list_objects_v2_delimiter(B, Prefix, ContinuationToken, n) ==
    CHOOSE r \in { PageOf(all, Prefix, ContinuationToken, n) :
                   all \in { Entries(B, Prefix) } } : TRUE

\* A page without keys or common prefixes that carries a token; the
\* CommonPrefixes member is absent, or present and empty.
EmptyPage(ContinuationToken, present) ==
    WithMember([ IsTruncated |-> TRUE,
                 NextContinuationToken |->
                     IF ContinuationToken = NoToken THEN 1 ELSE ContinuationToken ],
               "CommonPrefixes", <<>>, present)

----------------------------------------------------------------------------
(* iterate_dirs                                                            *)

\* The frame of an iterate_dirs generator that was created and has not run.
DirsFrame(p) ==
    [ pc |-> "init", prefix |-> p, page_exist |-> TRUE,
      continuation_token |-> NoToken, response |-> [ IsTruncated |-> FALSE ],
      idx |-> 1 ]

Top == stack[Len(stack)]

SetTop(f) == [stack EXCEPT ![Len(stack)] = f]

\* Line 131: 'CommonPrefixes' in response, and the list iterated by line 132.
CommonPrefixes(response) ==
    IF "CommonPrefixes" \in DOMAIN response THEN response["CommonPrefixes"]
    ELSE <<>>

\* Line 125: if continuation_token (a non-empty string).
HasToken(continuation_token) == continuation_token # NoToken

\* Lines 119-120 of the innermost generator: page_exist = True,
\* continuation_token = ''.
DirsBegin ==
    /\ demand /\ status = "running"
    /\ stack # <<>> /\ Top.pc = "init"
    /\ stack' = SetTop([Top EXCEPT !.pc = "while", !.page_exist = TRUE,
                                   !.continuation_token = NoToken])
    /\ UNCHANGED <<bucket, prefix, max_keys, gen, status, demand, yielded,
                   log, emptyLeft, envLeft, stable, storeVars>>

\* Lines 125-128 with the response resp.
DirsReceive(resp) ==
    /\ stack' = SetTop([Top EXCEPT !.pc = "for", !.response = resp, !.idx = 1])
    /\ log' = Append(log, [ Prefix |-> Top.prefix,
                            ContinuationToken |-> Top.continuation_token,
                            depth |-> Len(stack),
                            response |-> resp ])

\* Lines 122-128: while page_exist, the listing call, with the token when
\* there is one.
DirsList ==
    /\ demand /\ status = "running"
    /\ stack # <<>> /\ Top.pc = "while" /\ Top.page_exist
    /\ \E response \in { list_objects_v2_delimiter(
                             bucket, Top.prefix,
                             IF HasToken(Top.continuation_token)
                             THEN Top.continuation_token ELSE NoToken,
                             max_keys) } :
         DirsReceive(response)
    /\ UNCHANGED <<bucket, prefix, max_keys, gen, status, demand, yielded,
                   emptyLeft, envLeft, stable, storeVars>>

\* The same call served with a page that has a token and nothing else.
DirsListEmpty ==
    /\ demand /\ status = "running"
    /\ stack # <<>> /\ Top.pc = "while" /\ Top.page_exist
    /\ emptyLeft > 0
    /\ emptyLeft' = emptyLeft - 1
    /\ \E present \in BOOLEAN :
         DirsReceive(EmptyPage(
           IF HasToken(Top.continuation_token) THEN Top.continuation_token
           ELSE NoToken,
           present))
    /\ UNCHANGED <<bucket, prefix, max_keys, gen, status, demand, yielded,
                   envLeft, stable, storeVars>>

\* Lines 131-133: yield subdir['Prefix'], which suspends the generators.
DirsYield ==
    /\ demand /\ status = "running"
    /\ stack # <<>> /\ Top.pc = "for"
    /\ Top.idx <= Len(CommonPrefixes(Top.response))
    /\ yielded' = Append(yielded, CommonPrefixes(Top.response)[Top.idx])
    /\ stack' = SetTop([Top EXCEPT !.pc = "recurse"])
    /\ demand' = FALSE
    /\ UNCHANGED <<bucket, prefix, max_keys, gen, status, log, emptyLeft,
                   envLeft, stable, storeVars>>

\* A recursion that lists the generator's own prefix again.
SamePrefix(frame) == frame.prefix

\* Line 136: the prefix argument of the recursive call, subdir['Prefix'].
SubPrefix(frame) == CommonPrefixes(frame.response)[frame.idx]

\* A recursion that is put off until the generators that run have gone
\* through their pages, which makes the order breadth-first: the loop goes on
\* with the next common prefix, and the generator for the sub-directory
\* waits below the running ones and lists from the start when they returned.
DirsRecurseLater ==
    /\ demand /\ status = "running"
    /\ stack # <<>> /\ Top.pc = "recurse"
    /\ stack' = << [ DirsFrame(SubPrefix(Top)) EXCEPT
                       !.idx = 0,
                       !.response = [ NextContinuationToken |-> NoToken ] ] >>
                 \o SetTop([Top EXCEPT !.pc = "for", !.idx = @ + 1])
    /\ UNCHANGED <<bucket, prefix, max_keys, gen, status, demand, yielded,
                   log, emptyLeft, envLeft, stable, storeVars>>

\* Line 136: yield from self.iterate_dirs(bucket, prefix=subdir['Prefix']).
DirsRecurse ==
    /\ demand /\ status = "running"
    /\ stack # <<>> /\ Top.pc = "recurse"
    /\ stack' = Append(SetTop([Top EXCEPT !.pc = "sub"]),
                       DirsFrame(SubPrefix(Top)))
    /\ UNCHANGED <<bucket, prefix, max_keys, gen, status, demand, yielded,
                   log, emptyLeft, envLeft, stable, storeVars>>

\* Paging that gives up on a page without common prefixes.
HasNextPageWithDirs(response) ==
    /\ "NextContinuationToken" \in DOMAIN response
    /\ CommonPrefixes(response) # <<>>

\* Line 141: 'NextContinuationToken' in response.
HasNextPage(response) == "NextContinuationToken" \in DOMAIN response

\* Lines 141-144: keep the token of the response, or clear page_exist.
DirsPageEnd ==
    /\ demand /\ status = "running"
    /\ stack # <<>> /\ Top.pc = "for"
    /\ Top.idx > Len(CommonPrefixes(Top.response))
    /\ stack' = SetTop(
         IF HasNextPage(Top.response)
         THEN [Top EXCEPT !.pc = "while",
                 !.continuation_token = Top.response["NextContinuationToken"]]
         ELSE [Top EXCEPT !.pc = "while", !.page_exist = FALSE])
    /\ UNCHANGED <<bucket, prefix, max_keys, gen, status, demand, yielded,
                   log, emptyLeft, envLeft, stable, storeVars>>

\* Line 122 with page_exist False: the generator returns; the generator that
\* delegated to it goes on with its next common prefix (line 132), and the
\* outermost return ends the iteration.
DirsReturn ==
    /\ demand /\ status = "running"
    /\ stack # <<>> /\ Top.pc = "while" /\ ~Top.page_exist
    /\ LET rest == SubSeq(stack, 1, Len(stack) - 1)
       IN  IF rest = <<>>
           THEN /\ stack' = <<>>
                /\ status' = "done"
                /\ demand' = FALSE
           ELSE /\ stack' = [rest EXCEPT ![Len(rest)] =
                               [@ EXCEPT !.pc = "for", !.idx = @ + 1]]
                /\ UNCHANGED <<status, demand>>
    /\ UNCHANGED <<bucket, prefix, max_keys, gen, yielded, log, emptyLeft,
                   envLeft, stable, storeVars>>

----------------------------------------------------------------------------
(* Other clients of the bucket during a traversal by iterate_keys.  The    *)
(* generator reads the bucket only in its listing call, so it is enough to *)
(* let the bucket change when the generator is about to call.              *)

BetweenCalls == status = "running" /\ gen # NoFrame /\ gen.pc = "while"

\* Another client creates the object k (its write_file or upload_file).
EnvPut(k) ==
    /\ BetweenCalls
    /\ envLeft > 0
    /\ k \notin bucket
    /\ bucket' = bucket \cup {k}
    /\ envLeft' = envLeft - 1
    /\ UNCHANGED <<prefix, max_keys, gen, stack, status, demand, yielded, log,
                   emptyLeft, stable, storeVars>>

\* Another client deletes the object k (its delete_file).
EnvDelete(k) ==
    /\ BetweenCalls
    /\ envLeft > 0
    /\ k \in bucket
    /\ bucket' = bucket \ {k}
    /\ stable' = stable \ {k}
    /\ envLeft' = envLeft - 1
    /\ UNCHANGED <<prefix, max_keys, gen, stack, status, demand, yielded, log,
                   emptyLeft, storeVars>>

\* The keys and prefixes of the traversals that other clients interfere with.
SharedKeys == { <<"a">>, <<"a", "/", "b">>, <<"a", "/", "c">>, <<"d">>, <<"a", "b">> }

SharedPrefixes == { <<>>, <<"a", "/">> }

----------------------------------------------------------------------------
(* The object operations.  A text is a sequence of code points, a body a   *)
(* sequence of bytes.                                                      *)

BucketNames == { <<"x">>, <<"y">> }

ObjectKeys == { <<"a">>, <<"/", "y", "/", "a">> }

\* The texts written: '', 'a', U+00E9, U+20AC followed by 'a', U+1F600 and
\* a str holding the lone surrogate U+D800.
Texts == { <<>>, <<97>>, <<233>>, <<8364, 97>>, <<128512>>, <<55296>> }

\* The contents of the local files uploaded: a byte that starts no UTF-8
\* sequence, an overlong form, an encoded surrogate, and the UTF-8 of U+00E9.
Files == { <<255>>, <<192, 128>>, <<237, 160, 128>>, <<195, 169>> }

\* The decode arguments of read_file; "" is '' (no decoding).
Decodings == { "utf-8", "UTF-8", "utf8", "ascii", "latin-1", "no-such-codec", "" }

Locations == BucketNames \X ObjectKeys

NoObject == [ exists |-> FALSE, body |-> <<>> ]

\* What str.encode and bytes.decode give in place of a result when they raise.
UnicodeEncodeError == << -1 >>
UnicodeDecodeError == << -2 >>
LookupError == << -3 >>

IsSurrogate(cp) == cp >= 55296 /\ cp <= 57343

\* The UTF-8 bytes of the code point cp (not a surrogate, up to U+10FFFF).
Utf8(cp) ==
    IF IsSurrogate(cp) THEN UnicodeEncodeError
    ELSE IF cp < 128 THEN << cp >>
    ELSE IF cp < 2048 THEN << 192 + (cp \div 64), 128 + (cp % 64) >>
    ELSE IF cp < 65536
         THEN << 224 + (cp \div 4096), 128 + ((cp \div 64) % 64),
                 128 + (cp % 64) >>
    ELSE << 240 + (cp \div 262144), 128 + ((cp \div 4096) % 64),
            128 + ((cp \div 64) % 64), 128 + (cp % 64) >>

RECURSIVE EncodeAll(_)
EncodeAll(text) ==
    IF text = <<>> THEN <<>> ELSE Utf8(Head(text)) \o EncodeAll(Tail(text))

\* Object.put(Body=content) with a str body: the SDK sends content's UTF-8
\* bytes; a str that holds a surrogate has none (UnicodeEncodeError).
Encode(text) ==
    IF \E i \in 1..Len(text) : IsSurrogate(text[i])
    THEN UnicodeEncodeError
    ELSE EncodeAll(text)

IsContinuation(body, i) == i <= Len(body) /\ body[i] >= 128 /\ body[i] < 192

\* Whether b2 may follow the lead byte b1: the ranges that exclude overlong
\* forms (after E0, F0), surrogates (after ED) and code points above
\* U+10FFFF (after F4).
SecondByteOk(b1, b2) ==
    /\ b2 >= 128 /\ b2 < 192
    /\ b1 = 224 => b2 >= 160
    /\ b1 = 237 => b2 < 160
    /\ b1 = 240 => b2 >= 144
    /\ b1 = 244 => b2 < 144

RECURSIVE DecodeFrom(_)
\* The code points of body read from its start; -2 stands where the bytes
\* are not UTF-8.
DecodeFrom(body) ==
    IF body = <<>> THEN <<>>
    ELSE IF body[1] < 128
         THEN << body[1] >> \o DecodeFrom(Tail(body))
    ELSE IF /\ body[1] >= 194 /\ body[1] < 224
            /\ IsContinuation(body, 2)
         THEN << (body[1] - 192) * 64 + (body[2] - 128) >>
              \o DecodeFrom(SubSeq(body, 3, Len(body)))
    ELSE IF /\ body[1] >= 224 /\ body[1] < 240
            /\ Len(body) >= 2 /\ SecondByteOk(body[1], body[2])
            /\ IsContinuation(body, 3)
         THEN << (body[1] - 224) * 4096 + (body[2] - 128) * 64
                 + (body[3] - 128) >>
              \o DecodeFrom(SubSeq(body, 4, Len(body)))
    ELSE IF /\ body[1] >= 240 /\ body[1] < 245
            /\ Len(body) >= 2 /\ SecondByteOk(body[1], body[2])
            /\ IsContinuation(body, 3) /\ IsContinuation(body, 4)
         THEN << (body[1] - 240) * 262144 + (body[2] - 128) * 4096
                 + (body[3] - 128) * 64 + (body[4] - 128) >>
              \o DecodeFrom(SubSeq(body, 5, Len(body)))
    ELSE << -2 >>

\* bytes.decode('utf-8'): the code points, or UnicodeDecodeError for a body
\* that is not UTF-8.
DecodeUtf8(body) ==
    CHOOSE r \in { IF -2 \in Range(text) THEN UnicodeDecodeError ELSE text :
                   text \in { DecodeFrom(body) } } : TRUE

\* bytes.decode('ascii'): every byte below 128 is its character.
DecodeAscii(body) ==
    IF \E i \in 1..Len(body) : body[i] >= 128 THEN UnicodeDecodeError ELSE body

\* bytes.decode('latin-1'): every byte is the character of that code point.
DecodeLatin1(body) == body

\* The codec Python looks up for the name decode (names compare without
\* case, "-" and "_" alike); "" for a name it does not know.
Codec(decode) ==
    CASE decode \in { "utf-8", "UTF-8", "utf8", "UTF8", "utf_8", "u8", "U8" }
           -> "utf-8"
      [] decode \in { "ascii", "ASCII", "us-ascii", "646" } -> "ascii"
      [] decode \in { "latin-1", "latin1", "latin_1", "iso-8859-1", "L1" }
           -> "latin-1"
      [] decode \in { "no-such-codec" } -> ""

\* A decoding that takes every byte for a character.
DecodeBytewise(body, decode) == body

\* content.decode(decode) of lines 32-33.  Empty bytes decode to '' before
\* the codec is looked up, so an unknown name raises only for a body that
\* holds bytes (the interpreter's development mode, which checks the name
\* first, is not modelled).
Decode(body, decode) ==
    IF body = <<>> THEN <<>>
    ELSE CASE Codec(decode) = "utf-8" -> DecodeUtf8(body)
           [] Codec(decode) = "ascii" -> DecodeAscii(body)
           [] Codec(decode) = "latin-1" -> DecodeLatin1(body)
           [] Codec(decode) = "" -> LookupError

\* read_file (lines 30-34): the object's body, decoded when decode is not
\* ''; a missing object raises, and so does an unknown codec or an
\* undecodable body when the body is not empty.
read_file(st, b, key, decode) ==
    IF <<b, key>> \notin DOMAIN st \/ ~st[<<b, key>>].exists
    THEN [ type |-> "NoSuchKey", val |-> <<>> ]
    ELSE IF decode = ""
         THEN [ type |-> "bytes", val |-> st[<<b, key>>].body ]
         ELSE LET content == Decode(st[<<b, key>>].body, decode)
              IN  IF content = UnicodeDecodeError
                  THEN [ type |-> "UnicodeDecodeError", val |-> <<>> ]
                  ELSE IF content = LookupError
                  THEN [ type |-> "LookupError", val |-> <<>> ]
                  ELSE [ type |-> "str", val |-> content ]

\* The body that write_file (line 45) sends for content, or
\* UnicodeEncodeError.
PutBody(content) == Encode(content)

\* The store after write_file (lines 44-45): the object holds the body; a
\* content that cannot be encoded leaves the store as it was.
write_file(st, b, key, content) ==
    IF PutBody(content) = UnicodeEncodeError THEN st
    ELSE [st EXCEPT ![<<b, key>>] =
             [ exists |-> TRUE, body |-> PutBody(content) ]]

\* The store after upload_file (lines 81-82): the object holds the bytes of
\* the local file.
upload_file(st, b, key, file) ==
    [st EXCEPT ![<<b, key>>] = [ exists |-> TRUE, body |-> file ]]

\* os.path.join(a, b) of line 56 (POSIX): an absolute b replaces a.
os_path_join(a, b) ==
    IF b # <<>> /\ b[1] = "/" THEN b
    ELSE IF a = <<>> \/ a[Len(a)] = "/" THEN a \o b
    ELSE a \o <<"/">> \o b

\* The object a CopySource string names: the bucket up to the first "/" and
\* the key after it, a leading "/" being dropped.
CopySourceOf(path) ==
    LET p  == IF path # <<>> /\ path[1] = "/" THEN Tail(path) ELSE path
        D  == { i \in 1..Len(p) : p[i] = "/" }
        at == IF D = {} THEN Len(p) + 1 ELSE CHOOSE i \in D : \A j \in D : i <= j
    IN  << SubSeq(p, 1, at - 1), SubSeq(p, at + 1, Len(p)) >>

\* The store after copy_file (lines 56-58): the target takes the body of the
\* object CopySource names; nothing changes when there is no such object.
copy_file(st, src_bucket, src_key, trg_bucket, trg_key) ==
    LET src == CopySourceOf(os_path_join(src_bucket, src_key))
    IN  IF src \in DOMAIN st /\ st[src].exists
        THEN [st EXCEPT ![<<trg_bucket, trg_key>>] = st[src]]
        ELSE st

\* write_file (lines 44-45); written records the text of a put that was made.
WriteFile(b, key, content) ==
    /\ opsLeft > 0
    /\ store' = write_file(store, b, key, content)
    /\ written' = IF PutBody(content) = UnicodeEncodeError THEN written
                  ELSE [written EXCEPT ![<<b, key>>] =
                           [ exists |-> TRUE, text |-> content ]]
    /\ last' = [ op |-> "write", at |-> <<b, key>>, content |-> content,
                 raised |-> PutBody(content) = UnicodeEncodeError ]
    /\ opsLeft' = opsLeft - 1
    /\ UNCHANGED listVars

\* upload_file (lines 81-82).
UploadFile(b, key, file) ==
    /\ opsLeft > 0
    /\ store' = upload_file(store, b, key, file)
    /\ written' = [written EXCEPT ![<<b, key>>] =
                    [ exists |-> FALSE, text |-> <<>> ]]
    /\ last' = [ op |-> "upload" ]
    /\ opsLeft' = opsLeft - 1
    /\ UNCHANGED listVars

\* read_file (lines 30-34).
ReadFile(b, key, decode) ==
    /\ opsLeft > 0
    /\ last' = [ op |-> "read", at |-> <<b, key>>, decode |-> decode,
                 result |-> read_file(store, b, key, decode) ]
    /\ opsLeft' = opsLeft - 1
    /\ UNCHANGED <<store, written, listVars>>

CopyFile(src_bucket, src_key, trg_bucket, trg_key) ==
    /\ opsLeft > 0
    /\ store' = copy_file(store, src_bucket, src_key, trg_bucket, trg_key)
    /\ written' = [written EXCEPT ![<<trg_bucket, trg_key>>] =
                    [ exists |-> FALSE, text |-> <<>> ]]
    /\ last' = [ op |-> "copy", src |-> <<src_bucket, src_key>>,
                 trg |-> <<trg_bucket, trg_key>>,
                 source |-> store[<<src_bucket, src_key>>] ]
    /\ opsLeft' = opsLeft - 1
    /\ UNCHANGED listVars

\* delete_file (line 91).
DeleteFile(b, key) ==
    /\ opsLeft > 0
    /\ store' = [store EXCEPT ![<<b, key>>] = NoObject]
    /\ written' = [written EXCEPT ![<<b, key>>] =
                    [ exists |-> FALSE, text |-> <<>> ]]
    /\ last' = [ op |-> "delete" ]
    /\ opsLeft' = opsLeft - 1
    /\ UNCHANGED listVars

\* The untouched object store of the listing specifications.
NoStore == [ o \in {} |-> <<>> ]
NoLast == [ op |-> "none" ]

InitStore ==
    /\ bucket = {}
    /\ prefix = <<>>
    /\ max_keys = 1
    /\ gen = NoFrame
    /\ stack = <<>>
    /\ status = "idle"
    /\ demand = FALSE
    /\ yielded = <<>>
    /\ log = <<>>
    /\ emptyLeft = 0
    /\ envLeft = 0
    /\ stable = {}
    /\ store = [ o \in Locations |-> NoObject ]
    /\ written = [ o \in Locations |-> [ exists |-> FALSE, text |-> <<>> ] ]
    /\ last = NoLast
    /\ opsLeft = MaxOps

NextStore ==
    \/ \E b \in BucketNames, key \in ObjectKeys, content \in Texts :
         WriteFile(b, key, content)
    \/ \E b \in BucketNames, key \in ObjectKeys, file \in Files :
         UploadFile(b, key, file)
    \/ \E b \in BucketNames, key \in ObjectKeys, decode \in Decodings :
         ReadFile(b, key, decode)
    \/ \E sb \in BucketNames, sk \in ObjectKeys,
          tb \in BucketNames, tk \in ObjectKeys :
         CopyFile(sb, sk, tb, tk)
    \/ \E b \in BucketNames, key \in ObjectKeys : DeleteFile(b, key)

\* Any sequence of up to MaxOps object operations on an empty store.
SpecStore == InitStore /\ [][NextStore]_vars

InitKeys ==
    /\ bucket \in Buckets
    /\ prefix \in Prefixes
    /\ max_keys \in 1..MaxPageSize
    /\ gen = KeysFrame
    /\ stack = <<>>
    /\ status = "idle"
    /\ demand = FALSE
    /\ yielded = <<>>
    /\ log = <<>>
    /\ emptyLeft = 0
    /\ envLeft = 0
    /\ stable = bucket
    /\ store = NoStore /\ written = NoStore /\ last = NoLast /\ opsLeft = 0

InitDirs ==
    /\ bucket \in Buckets
    /\ prefix \in Prefixes
    /\ max_keys \in 1..MaxPageSize
    /\ gen = NoFrame
    /\ stack = <<DirsFrame(prefix)>>
    /\ status = "idle"
    /\ demand = FALSE
    /\ yielded = <<>>
    /\ log = <<>>
    /\ emptyLeft = MaxEmptyPages
    /\ envLeft = 0
    /\ stable = bucket
    /\ store = NoStore /\ written = NoStore /\ last = NoLast /\ opsLeft = 0

\* iterate_keys against a service that may serve truncated pages without
\* keys.
InitKeysLoose ==
    /\ bucket \in Buckets
    /\ prefix \in Prefixes
    /\ max_keys \in 1..MaxPageSize
    /\ gen = KeysFrame
    /\ stack = <<>>
    /\ status = "idle"
    /\ demand = FALSE
    /\ yielded = <<>>
    /\ log = <<>>
    /\ emptyLeft = MaxEmptyPages
    /\ envLeft = 0
    /\ stable = bucket
    /\ store = NoStore /\ written = NoStore /\ last = NoLast /\ opsLeft = 0

\* iterate_keys over a bucket that other clients write to and delete from.
InitShared ==
    /\ bucket \in SUBSET SharedKeys
    /\ prefix \in SharedPrefixes
    /\ max_keys \in 1..MaxPageSize
    /\ gen = KeysFrame
    /\ stack = <<>>
    /\ status = "idle"
    /\ demand = FALSE
    /\ yielded = <<>>
    /\ log = <<>>
    /\ emptyLeft = 0
    /\ envLeft = MaxEnvOps
    /\ stable = bucket
    /\ store = NoStore /\ written = NoStore /\ last = NoLast /\ opsLeft = 0

Init == InitKeys \/ InitDirs

Next ==
    \/ Request
    \/ KeysBegin \/ KeysList \/ KeysYield \/ KeysPageEnd
    \/ DirsBegin \/ DirsList \/ DirsListEmpty \/ DirsYield
    \/ DirsRecurse \/ DirsPageEnd \/ DirsReturn

NextKeysLoose ==
    Request \/ KeysBegin \/ KeysList \/ KeysListEmpty \/ KeysYield \/ KeysPageEnd

\* One traversal by iterate_keys or by iterate_dirs of an unchanging bucket.
\* For iterate_keys the service fills every page up to max_keys; for
\* iterate_dirs it may also serve pages that carry only a token.
Spec == Init /\ [][Next]_vars

\* iterate_keys against a service that may serve a truncated page without keys.
SpecLoose == InitKeysLoose /\ [][NextKeysLoose]_vars

NextShared ==
    \/ Request \/ KeysBegin \/ KeysList \/ KeysYield \/ KeysPageEnd
    \/ \E k \in SharedKeys : EnvPut(k)
    \/ \E k \in SharedKeys : EnvDelete(k)

\* iterate_keys while other clients change the bucket between its calls.
SpecShared == InitShared /\ [][NextShared]_vars

----------------------------------------------------------------------------
(* Properties.                                                             *)

IsKeys == gen # NoFrame
IsDirs == gen = NoFrame

\* The keys of the bucket under the prefix.
Matching == { k \in bucket : StartsWith(k, prefix) }

\* C1: fully consumed, iterate_keys yields exactly the keys that start with
\* the prefix, each once and in listing order, whatever the page size; it
\* never yields anything else on the way and never fails.
C1_KeysExactlyOnceInOrder ==
    IsKeys =>
        /\ status # "raised"
        /\ \A i \in 1..Len(yielded) : yielded[i] \in Matching
        /\ \A i, j \in 1..Len(yielded) : i < j => Less(yielded[i], yielded[j])
        /\ status = "done" => Matching \subseteq Range(yielded)

\* C1 witness: max_keys + 1 keys were served in two pages and all yielded.
C1_Witness ==
    /\ IsKeys /\ status = "done"
    /\ Cardinality(Matching) = max_keys + 1
    /\ Len(yielded) = max_keys + 1
    /\ Len(log) = 2

\* The number of pages that serve m keys n at a time.
PagesFor(m, n) == IF m = 0 THEN 1 ELSE (m + n - 1) \div n

\* C2: iterate_keys calls again exactly when the last response was
\* truncated: every response but the last one in the log is truncated, the
\* iteration ends only on a response that is not, and a keyspace served in
\* P pages has caused exactly P calls.
C2_CallsFollowTruncation ==
    IsKeys =>
        /\ \A i \in 1..(Len(log) - 1) : log[i].IsTruncated
        /\ status # "raised"
        /\ status = "done" =>
             /\ Len(log) >= 1 /\ ~log[Len(log)].IsTruncated
             /\ Len(log) = PagesFor(Cardinality(Matching), max_keys)

\* C2 witness: the last page was full (max_keys keys), not truncated, and
\* the iteration stopped after it, two calls in all.
C2_Witness ==
    /\ IsKeys /\ status = "done"
    /\ max_keys = 2
    /\ Len(log) = 2
    /\ Len(log[2].Contents) = max_keys
    /\ ~log[2].IsTruncated

\* The calls of the log that list prefix p, in the order made.
CallsAt(p) == SelectSeq(log, LAMBDA r : r.Prefix = p)

\* The prefixes of the generators that have not returned yet.
OpenPrefixes == { stack[i].prefix : i \in 1..Len(stack) }

\* C3: in iterate_dirs the first call for a prefix carries no token, every
\* later call for it carries the token of the response before it, and the
\* paging of a prefix ends only on a response without a token, whatever the
\* response holds besides the token.
C3_TokenIsFollowed ==
    IsDirs =>
        \A p \in { log[i].Prefix : i \in 1..Len(log) } :
            LET c == CallsAt(p)
            IN  /\ c[1].ContinuationToken = NoToken
                /\ \A i \in 1..(Len(c) - 1) :
                     /\ "NextContinuationToken" \in DOMAIN c[i].response
                     /\ c[i + 1].ContinuationToken =
                            c[i].response["NextContinuationToken"]
                /\ p \notin OpenPrefixes =>
                     "NextContinuationToken" \notin DOMAIN c[Len(c)].response

\* C3 witness: a response with a token, no common prefixes and no keys was
\* followed by a call for the same prefix with that token, and by the
\* common prefixes of the later page.
C3_Witness ==
    /\ IsDirs /\ status = "done"
    /\ \E i, j \in 1..Len(log) :
         /\ i < j
         /\ log[i].Prefix = log[j].Prefix
         /\ "CommonPrefixes" \notin DOMAIN log[i].response
         /\ "Contents" \notin DOMAIN log[i].response
         /\ "NextContinuationToken" \in DOMAIN log[i].response
         /\ log[j].ContinuationToken = log[i].response["NextContinuationToken"]
         /\ "CommonPrefixes" \in DOMAIN log[j].response

\* The virtual directories of B under prefix P, at every depth.
AllDirs(B, P) ==
    UNION { { SubSeq(k, 1, i) : i \in DelimitersAfter(k, P) } :
            k \in { k \in B : StartsWith(k, P) } }

\* C4: iterate_dirs yields only virtual directories under the prefix, never
\* one after itself or after one of its descendants, the descendants of a
\* directory right after it and before anything else (so before its next
\* sibling); fully consumed, it has yielded every directory under the
\* prefix, and for the leaf keys a/b, a/c, d under '' exactly a/.
C4_DirsPreOrder ==
    IsDirs =>
        /\ \A i \in 1..Len(yielded) : yielded[i] \in AllDirs(bucket, prefix)
        /\ \A i, j \in 1..Len(yielded) :
             i < j => ~StartsWith(yielded[i], yielded[j])
        /\ \A i, j, k \in 1..Len(yielded) :
             (i < j /\ j < k /\ StartsWith(yielded[k], yielded[i]))
                 => StartsWith(yielded[j], yielded[i])
        /\ status = "done" => AllDirs(bucket, prefix) \subseteq Range(yielded)
        /\ ( /\ status = "done" /\ prefix = <<>>
             /\ bucket = { <<"a", "/", "b">>, <<"a", "/", "c">>, <<"d">> } )
           => yielded = << <<"a", "/">> >>

\* C4 witness: the directory a/ has the sub-directory a/b/ and the later
\* sibling b/, which came on a later page of the listing of ''; the
\* sub-directory was yielded between the two.
C4_Witness ==
    /\ IsDirs /\ status = "done"
    /\ prefix = <<>> /\ max_keys = 1
    /\ yielded = << <<"a", "/">>, <<"a", "/", "b", "/">>, <<"b", "/">> >>

\* The deepest nesting of virtual directories under the prefix.
Nesting ==
    LET depths == { Cardinality(DelimitersAfter(k, prefix)) : k \in Matching }
    IN  IF depths = {} THEN 0
        ELSE CHOOSE d \in depths : \A e \in depths : e <= d

\* The entries of a generator's prefix that the page after token t and
\* the pages behind it hold.
Remaining(f, t) ==
    Cardinality(EntrySet(bucket, f.prefix))
    - (IF t = NoToken THEN 0 ELSE t - 1)

\* What is left to do for the generator of frame f once its current page is
\* dealt with.
AfterPage(f) ==
    IF "NextContinuationToken" \in DOMAIN f.response
    THEN 4 * Remaining(f, f.response["NextContinuationToken"]) + 3
    ELSE 1

\* A measure of what is left to do for the generator of frame f.
FrameRank(f) ==
    CASE f.pc = "init" -> 4 * Remaining(f, NoToken) + 4
      [] f.pc = "while" ->
            IF f.page_exist THEN 4 * Remaining(f, f.continuation_token) + 3
            ELSE 1
      [] f.pc = "recurse" ->
            AfterPage(f) + 1
            + 4 * Cardinality(EntrySet(bucket, CommonPrefixes(f.response)[f.idx]))
            + 5
      [] OTHER -> AfterPage(f) + 1

RECURSIVE StackRank(_)
StackRank(st) ==
    IF st = <<>> THEN 0
    ELSE FrameRank(st[Len(st)]) + StackRank(SubSeq(st, 1, Len(st) - 1))

\* A measure of what is left of the traversal: the directories not yielded
\* yet, then the token-only pages the service may still serve, then the work
\* of the open generators, then the pending next().
Rank ==
    ((((Cardinality(AllDirs(bucket, prefix)) - Len(yielded)) * 10 + emptyLeft)
        * 1000 + StackRank(stack)) * 2) + (IF demand THEN 0 ELSE 1)

\* C8: iterate_dirs terminates on a finite keyspace served in finitely many
\* pages: every step of the traversal lowers a measure that is never
\* negative, the traversal is never stuck before its end, and it never has
\* more recursive generators open than the deepest directory nesting under
\* the prefix.
C8_DirsTerminate ==
    /\ [](IsDirs => /\ Len(stack) - 1 <= Nesting
                    /\ Rank >= 0
                    /\ StackRank(stack) < 1000
                    /\ status # "done" => ENABLED Next)
    /\ [][IsDirs => Rank' < Rank]_vars

\* C8 witness: a traversal that ended after listing at recursion depth 2,
\* the nesting of the keyspace.
C8_Witness ==
    /\ IsDirs /\ status = "done"
    /\ Nesting = 2
    /\ \E i \in 1..Len(log) : log[i].depth - 1 = 2

RECURSIVE KeysIn(_)
\* The number of keys in the pages of a call log of iterate_keys.
KeysIn(l) ==
    IF l = <<>> THEN 0
    ELSE Len(l[Len(l)].Contents) + KeysIn(SubSeq(l, 1, Len(l) - 1))

\* No call before the first next(); a consumer holding k items has caused
\* only the calls up to the page that holds item k.
LazyKeysState ==
    IsKeys =>
        /\ status = "idle" => log = <<>>
        /\ (status = "running" /\ ~demand) =>
             /\ log # <<>>
             /\ KeysIn(SubSeq(log, 1, Len(log) - 1)) < Len(yielded)
             /\ Len(yielded) <= KeysIn(log)

\* A call is made inside next(), after every key fetched was handed over.
LazyKeysStep ==
    (IsKeys /\ log' # log) => (demand /\ Len(yielded) = KeysIn(log))

\* No call before the first next(); a consumer holding the directory d has
\* caused no listing of d or of anything after d, and no listing of a later
\* page of the prefix whose page shows d.
LazyDirsState ==
    IsDirs =>
        /\ status = "idle" => log = <<>>
        /\ (status = "running" /\ ~demand) =>
             LET d == yielded[Len(yielded)]
                 c == CallsAt(Top.prefix)
             IN  /\ \A i \in 1..Len(log) : Less(log[i].Prefix, d)
                 /\ d \in Range(CommonPrefixes(c[Len(c)].response))

\* A call is made inside next(); the first call for a prefix right after the
\* prefix was yielded, a later one after every common prefix of the pages
\* before and everything beneath them was yielded.
LazyDirsStep ==
    (IsDirs /\ log' # log) =>
        /\ demand
        /\ LET p  == log'[Len(log')].Prefix
               c  == CallsAt(p)
           IN  IF c = <<>>
               THEN IF yielded = <<>> THEN p = prefix
                    ELSE p = yielded[Len(yielded)]
               ELSE \A i \in 1..Len(c) :
                      \A cp \in Range(CommonPrefixes(c[i].response)) :
                          /\ cp \in Range(yielded)
                          /\ AllDirs(bucket, cp) \subseteq Range(yielded)

\* C7: both generators are demand-driven: no listing call before the first
\* item is asked for, each call only inside next() and only once everything
\* fetched before it (for iterate_dirs: every common prefix of the pages
\* before and its whole sub-traversal) was handed over, and no call beyond
\* those that produced the items the consumer holds.
C7_DemandDriven ==
    /\ [](LazyKeysState /\ LazyDirsState)
    /\ [][LazyKeysStep /\ LazyDirsStep]_vars

\* C7 witness: the consumer stopped after the max_keys keys of a truncated
\* first page, and one call has been made.
C7_Witness ==
    /\ IsKeys /\ status = "running" /\ ~demand
    /\ max_keys = 2
    /\ Len(yielded) = max_keys
    /\ Len(log) = 1 /\ log[1].IsTruncated

\* C9: a truncated response, with or without keys, is followed by the next
\* listing call and not by a failure, and after a page with keys that call
\* starts after the page's last key.
C9_TruncatedPageContinues ==
    IsKeys =>
        /\ status # "raised"
        /\ \A i \in 1..(Len(log) - 1) :
             (log[i].IsTruncated /\ log[i].Contents # <<>>) =>
                 log[i + 1].StartAfter = log[i].Contents[Len(log[i].Contents)]

\* C10: while other clients write and delete between the calls, the
\* start-after cursor strictly increases from call to call, the yielded keys
\* strictly increase in listing order (so none comes twice), the traversal
\* does not fail, and, once exhausted, it has yielded every key under the
\* prefix that was there from its start to its end.
C10_CursorAdvances ==
    IsKeys =>
        /\ status # "raised"
        /\ \A i \in 1..(Len(log) - 1) :
             Less(log[i].StartAfter, log[i + 1].StartAfter)
        /\ \A i, j \in 1..Len(yielded) : i < j => Less(yielded[i], yielded[j])
        /\ status = "done" =>
             { k \in stable : StartsWith(k, prefix) } \subseteq Range(yielded)

\* C10 witness: a traversal of several calls ended after another client
\* deleted a key already yielded and created a key behind the cursor.
C10_Witness ==
    /\ IsKeys /\ status = "done"
    /\ envLeft = 0
    /\ Len(log) >= 2
    /\ \E i \in 1..Len(yielded) : yielded[i] \notin bucket
    /\ \E k \in bucket :
         /\ StartsWith(k, prefix)
         /\ k \notin Range(yielded)
         /\ Less(k, yielded[Len(yielded)])

\* The names under which read_file is asked for the UTF-8 decoding.
Utf8Names == { d \in Decodings : d # "" /\ Codec(d) = "utf-8" }

\* C5: whatever was written, uploaded, copied or deleted at other keys
\* since, reading a key back with the decoding of the write (UTF-8, under
\* any of its names) returns the text that write_file last put there; and
\* write_file puts every text but one holding a surrogate, which has no
\* encoding.
C5_WriteReadRoundTrip ==
    /\ \A o \in DOMAIN written :
         written[o].exists =>
            \A decode \in Utf8Names :
                read_file(store, o[1], o[2], decode)
                    = [ type |-> "str", val |-> written[o].text ]
    /\ last.op = "write" =>
         /\ last.raised <=>
              \E i \in 1..Len(last.content) : IsSurrogate(last.content[i])
         /\ ~last.raised =>
              written[last.at] = [ exists |-> TRUE, text |-> last.content ]

\* C5 witness: a text with a character outside the basic plane was read back
\* as written, under an alias of the codec, while the store held an uploaded
\* object that is not UTF-8.
C5_Witness ==
    /\ last.op = "read" /\ last.decode = "utf8"
    /\ written[last.at].exists
    /\ written[last.at].text = <<128512>>
    /\ last.result = [ type |-> "str", val |-> <<128512>> ]
    /\ \E o \in Locations :
         /\ o # last.at /\ store[o].exists
         /\ read_file(store, o[1], o[2], "utf-8").type = "UnicodeDecodeError"

\* C6: after copy_file from a source that holds an object, for every key
\* string, the target reads as the source did and the source is unchanged.
C6_CopyReadsAsSource ==
    (last.op = "copy" /\ last.source.exists) =>
        /\ store[last.trg] = last.source
        /\ store[last.src] = last.source
        /\ read_file(store, last.trg[1], last.trg[2], "")
             = read_file(store, last.src[1], last.src[2], "")

====
